---- MODULE Spec2Model ----
(***************************************************************************)
(* Model of the math-reasoning pipeline of src/main.py:                    *)
(*   MultiAgentSystem.process_problem  (StartRun)                          *)
(*   MultiAgentSystem.resume_from_hitl (Resume)                            *)
(* together with the four agents it calls (intent_router, solver,          *)
(* verifier, explainer) and the module-level ledger HITL_STORE.            *)
(*                                                                         *)
(* Python dicts are records; a key that a dict does not carry is a field   *)
(* that the record does not have (tested with \in DOMAIN).  Floats are     *)
(* records [nan, v] with v in hundredths, so that 0.85 is Num(85); NaN is  *)
(* a float the code can produce (float("nan"), JSON NaN) and compares      *)
(* false with everything, as in Python.                                    *)
(*                                                                         *)
(* The server handles requests in threads: each call of process_problem    *)
(* or resume_from_hitl is a process of the model, and its steps are cut    *)
(* where another thread may run in between (the model calls, and between   *)
(* the read and the write of a ledger record).                             *)
(***************************************************************************)
EXTENDS Integers, Sequences, FiniteSets, TLC

\* ------------------------------------------------------------------
\* Bounds
\* ------------------------------------------------------------------

\* number of calls (of process_problem and of resume_from_hitl together)
\* the callers make
MaxCalls == 3

Runs == 1..MaxCalls

Resumes == 1..MaxCalls

\* ------------------------------------------------------------------
\* Floats
\* ------------------------------------------------------------------

Num(h) == [nan |-> FALSE, v |-> h]

NaN == [nan |-> TRUE, v |-> 0]

\* Python's a < b on floats: false as soon as one side is NaN
FloatLt(a, b) == ~a.nan /\ ~b.nan /\ a.v < b.v

\* Python's a >= b on floats
FloatGe(a, b) == ~a.nan /\ ~b.nan /\ a.v >= b.v

\* ------------------------------------------------------------------
\* Program constants (src/main.py)
\* ------------------------------------------------------------------

\* CONFIDENCE_THRESHOLD = 0.85, in hundredths
CONFIDENCE_THRESHOLD == 85

\* the verifier's default confidence_threshold = 0.85, in hundredths
VerifierThreshold == 85

\* the literal 0.85 of ExplainerAgent.explain, in hundredths
ExplainerMinConfidence == 85

\* the confidence 1.0 a human correction is explained and returned at
CorrectedConfidence == 100

\* reject is not among the allowed actions
ALLOWED_HITL_ACTIONS_NoReject == {"approve", "edit_problem", "correct_solution"}

ALLOWED_HITL_ACTIONS == {"approve", "reject", "edit_problem", "correct_solution"}

\* no state is terminal: the check of the record's state never fires
TERMINAL_STATES_Empty == {}

TERMINAL_STATES == {"RESOLVED"}

\* ------------------------------------------------------------------
\* JSON values of a model reply: tagged, so that isinstance() is a test
\* ------------------------------------------------------------------

JStr(s) == [t |-> "str", s |-> s]

JNum(h) == [t |-> "num", f |-> Num(h)]

JNaN == [t |-> "num", f |-> NaN]

JList(l) == [t |-> "list", l |-> l]

JNull == [t |-> "null"]

\* the wrapper contract of llm.generate(): a failed call, or a reply whose
\* text parsed to JSON (parsed_json a dict) or did not (parsed_json None)
LlmFailed == [success |-> FALSE, parsed_json |-> JNull, error |-> "api error"]

LlmText == [success |-> TRUE, parsed_json |-> JNull]

LlmJson(d) == [success |-> TRUE, parsed_json |-> [t |-> "dict", d |-> d]]

\* Python's None
None == "<None>"

\* d[key] = value on a dict
SetKey(d, key, value) == (key :> value) @@ d

\* dict.get(key, default)
Get(d, key, default) == IF key \in DOMAIN d THEN d[key] ELSE default

\* a call that ended in an exception instead of a value
Raised(e) == [exception |-> e]

IsRaised(r) == "exception" \in DOMAIN r

\* ------------------------------------------------------------------
\* IntentRouter (src/agents/intent_router.py)
\* ------------------------------------------------------------------

TOPIC_TO_ROUTE ==
  [t \in {"algebra", "probability", "calculus", "linear_algebra"} |->
     CASE t = "algebra" -> "algebra_equation"
       [] t = "probability" -> "probability_basic"
       [] t = "calculus" -> "calculus_derivative"
       [] t = "linear_algebra" -> "linear_algebra_basic"]

VALID_ROUTES ==
  {"algebra_equation", "probability_basic", "calculus_limit",
   "calculus_derivative", "calculus_optimization", "linear_algebra_basic"}

_out_of_scope(reason) ==
  [route |-> "out_of_scope", difficulty |-> "unknown",
   tools_allowed |-> <<>>, reason |-> reason]

\* self._llm_route(problem_data) as written: IntentRouter has no attribute
\* _llm_route, so evaluating the call raises
MissingFallback == Raised("AttributeError")

\* What the call self._llm_route(problem_data) of route() can end in.  The
\* class under src/ defines no _llm_route, so the call as written raises
\* AttributeError; the results are those section 4.1 of the specification
\* gives the model-backed fallback when the model's output is malformed or
\* unrecognized: the fail-closed out_of_scope decision.
LlmRouteOutcomes ==
  { MissingFallback,
    _out_of_scope("unrecognized model output") }

\* every problem is left to the model-backed fallback
route_ModelOnly(problem_data, fallback) == fallback

\* IntentRouter.route: a recognized topic is honoured without the model,
\* anything else is left to the fallback, whose outcome is fallback
route(problem_data, fallback) ==
  LET topic == Get(problem_data, "topic", None)
  IN  IF topic \in DOMAIN TOPIC_TO_ROUTE
      THEN [route |-> TOPIC_TO_ROUTE[topic], difficulty |-> "medium",
            tools_allowed |-> <<"python">>]
      ELSE fallback

\* ------------------------------------------------------------------
\* SolverAgent (src/agents/solver.py)
\* ------------------------------------------------------------------

SolverFailed(reason) ==
  [status |-> "FAILED", reason |-> reason, final_answer |-> None, steps |-> <<>>]

\* str.strip() leaves nothing
IsBlank(s) == s \in {"", " ", "  "}

\* steps.split("\n") on the step texts of the model's replies
SplitLines(s) ==
  CASE s = "- s1\n\n- s2" -> <<"- s1", "", "- s2">>
    [] s = "s1" -> <<"s1">>
    [] OTHER -> <<s>>

\* s.strip("-• \n\t") on the lines of the model's replies
StripBullets(s) ==
  CASE s = "- s1" -> "s1"
    [] s = "- s2" -> "s2"
    [] OTHER -> s

RECURSIVE NormalizeLines(_)
\* [s.strip("-• \n\t") for s in lines if s.strip()]
NormalizeLines(lines) ==
  IF lines = <<>> THEN <<>>
  ELSE IF IsBlank(Head(lines)) THEN NormalizeLines(Tail(lines))
       ELSE <<StripBullets(Head(lines))>> \o NormalizeLines(Tail(lines))

\* the first of the three required keys that the reply lacks, or None
FirstMissingKey(d) ==
  IF "final_answer" \notin DOMAIN d THEN "final_answer"
  ELSE IF "steps" \notin DOMAIN d THEN "steps"
  ELSE IF "tool_requests" \notin DOMAIN d THEN "tool_requests"
  ELSE None

MissingKeyReason(key) ==
  CASE key = "final_answer" -> "Missing required key: final_answer"
    [] key = "steps" -> "Missing required key: steps"
    [] OTHER -> "Missing required key: tool_requests"

\* tools that are not allowed are let through
FirstUnauthorized_None(requests, tools_allowed) == 0

\* the index of the first requested tool that is not allowed, or 0
FirstUnauthorized(requests, tools_allowed) ==
  LET allowed == {tools_allowed[i] : i \in DOMAIN tools_allowed}
      bad == {i \in DOMAIN requests : requests[i] \notin allowed}
  IN  IF bad = {} THEN 0 ELSE CHOOSE i \in bad : \A j \in bad : i <= j

\* f"Unauthorized tool request: {tool}"
UnauthorizedReason(tool) ==
  CASE tool = "python" -> "Unauthorized tool request: python"
    [] OTHER -> "Unauthorized tool request: calculator"

\* SolverAgent.solve, given the reply of its one model call
solve(problem_text, rt, difficulty, tools_allowed, llm_response) ==
  IF rt = "out_of_scope" THEN SolverFailed("Problem out of supported scope")
  ELSE IF ~llm_response.success
  THEN SolverFailed(Get(llm_response, "error", "LLM call failed"))
  ELSE IF llm_response.parsed_json.t # "dict"
  THEN SolverFailed("LLM did not return valid JSON")
  ELSE
    LET solution == llm_response.parsed_json.d
        missing == FirstMissingKey(solution)
    IN  IF missing # None THEN SolverFailed(MissingKeyReason(missing))
        ELSE
          LET raw == solution.steps
              steps == IF raw.t = "str"
                       THEN JList(NormalizeLines(SplitLines(raw.s)))
                       ELSE raw
              final_answer == solution.final_answer
              requests == solution.tool_requests
          IN  IF steps.t # "list" THEN SolverFailed("Steps must be a list")
              ELSE IF final_answer.t # "str" \/ IsBlank(final_answer.s)
              THEN SolverFailed("Final answer is empty or invalid")
              \* for tool in None: the loop over a reply's null raises
              ELSE IF requests.t # "list" THEN Raised("TypeError")
              ELSE IF FirstUnauthorized(requests.l, tools_allowed) # 0
              THEN SolverFailed(UnauthorizedReason(
                     requests.l[FirstUnauthorized(requests.l, tools_allowed)]))
              ELSE [status |-> "SOLVED", final_answer |-> final_answer.s,
                    steps |-> steps.l, used_tools |-> requests.l]

\* ------------------------------------------------------------------
\* VerifierAgent (src/agents/verifier.py)
\* ------------------------------------------------------------------

_fail_closed(reason) ==
  [verdict |-> "uncertain", confidence |-> Num(0), issues |-> <<reason>>,
   requires_hitl |-> TRUE]

\* float(confidence) inside try/except: a number is itself, a numeric text
\* is its value ("nan" is NaN), anything else raises and becomes 0.0
NormalizeConfidence(raw) ==
  CASE raw.t = "num" -> raw.f
    [] raw.t = "str" /\ raw.s = "0.85" -> Num(85)
    [] raw.t = "str" /\ raw.s = "nan" -> NaN
    [] OTHER -> Num(0)

\* the flag looks at the verdict alone
RequiresHitl_VerdictOnly(verdict, confidence) == verdict # "correct"

\* requires_hitl = verdict != "correct" or confidence < threshold
RequiresHitl(verdict, confidence) ==
  verdict # "correct" \/ FloatLt(confidence, Num(VerifierThreshold))

\* VerifierAgent.verify, given the reply of its one model call
verify(problem_text, solution, rt, llm_response) ==
  IF solution.final_answer = None
  THEN _fail_closed("Missing or invalid final_answer")
  ELSE IF ~llm_response.success THEN _fail_closed("Verifier LLM call failed")
  ELSE IF llm_response.parsed_json.t # "dict"
  THEN _fail_closed("Verifier returned invalid JSON")
  ELSE
    LET data == llm_response.parsed_json.d
        rawVerdict == Get(data, "verdict", JStr("uncertain"))
        confidence == NormalizeConfidence(Get(data, "confidence", JNum(0)))
        rawIssues == Get(data, "issues", JList(<<>>))
    IN  \* verdict not in {...} on an unhashable value (a list) raises
        IF rawVerdict.t = "list" THEN Raised("TypeError")
        ELSE
          LET verdict ==
                IF rawVerdict.t = "str"
                   /\ rawVerdict.s \in {"correct", "incorrect", "uncertain"}
                THEN rawVerdict.s ELSE "uncertain"
              issues ==
                IF rawIssues.t = "list" THEN rawIssues.l
                ELSE <<"Invalid issues format returned by verifier">>
          IN  [verdict |-> verdict, confidence |-> confidence,
               issues |-> issues,
               requires_hitl |-> RequiresHitl(verdict, confidence)]

\* ------------------------------------------------------------------
\* ExplainerAgent (src/agents/explainer.py)
\* ------------------------------------------------------------------

\* the guard that opens ExplainerAgent.explain
ExplainerRefuses(verification_confidence) ==
  FloatLt(verification_confidence, Num(ExplainerMinConfidence))

\* the three keys are read from the JSON the model wrote
explain_FromParsedJson(problem_text, verified_solution, verification_confidence, response) ==
  IF ExplainerRefuses(verification_confidence) THEN Raised("ValueError")
  ELSE
    LET parsed == IF response.parsed_json.t = "dict"
                  THEN response.parsed_json.d ELSE <<>>
        Listed(key) ==
          IF key \in DOMAIN parsed /\ parsed[key].t = "list"
          THEN parsed[key].l ELSE <<>>
    IN  [explanation |-> Listed("explanation"),
         key_concepts |-> Listed("key_concepts"),
         common_mistakes |-> Listed("common_mistakes")]

\* ExplainerAgent.explain, given the reply of its one model call.  The
\* reply is the wrapper's dict, never a str, so parsed is the reply itself
\* and the three keys are read from it (the except branch is not reached).
explain(problem_text, verified_solution, verification_confidence, response) ==
  IF ExplainerRefuses(verification_confidence) THEN Raised("ValueError")
  ELSE [explanation |-> Get(response, "explanation", <<>>),
        key_concepts |-> Get(response, "key_concepts", <<>>),
        common_mistakes |-> Get(response, "common_mistakes", <<>>)]

\* ------------------------------------------------------------------
\* Inputs: the requests of the callers and the replies of the model
\* ------------------------------------------------------------------

\* request bodies of /solve: a recognized topic hint, or none
Problems ==
  { [problem_text |-> "p1", topic |-> "algebra"],
    [problem_text |-> "p1"] }

SolverReplies ==
  { LlmFailed,
    LlmJson([final_answer |-> JStr("x=5"), steps |-> JList(<<"s1", "s2">>),
             tool_requests |-> JNull]),
    LlmJson([final_answer |-> JStr("x=5"), steps |-> JList(<<"s1", "s2">>),
             tool_requests |-> JList(<<"python", "calculator">>)]),
    LlmJson([final_answer |-> JStr("x=5"), steps |-> JStr("- s1\n\n- s2"),
             tool_requests |-> JList(<<"python">>)]),
    LlmJson([final_answer |-> JStr("x=5"), steps |-> JList(<<"s1", "s2">>),
             tool_requests |-> JList(<<"python">>)]) }

VerifierReplies ==
  { LlmFailed,
    LlmJson([verdict |-> JStr("correct"), confidence |-> JNum(85),
             issues |-> JList(<<>>)]),
    LlmJson([verdict |-> JStr("correct"), confidence |-> JNum(84),
             issues |-> JList(<<>>)]),
    LlmJson([verdict |-> JStr("correct"), confidence |-> JNum(150),
             issues |-> JList(<<>>)]),
    LlmJson([verdict |-> JStr("correct"), confidence |-> JNaN,
             issues |-> JList(<<>>)]),
    LlmJson([verdict |-> JStr("incorrect"), confidence |-> JStr("0.85"),
             issues |-> JStr("step 1")]) }

ExplainerReplies ==
  { LlmFailed,
    LlmJson([explanation |-> JList(<<"why s1">>), key_concepts |-> JList(<<>>),
             common_mistakes |-> JList(<<>>)]) }

\* str(uuid.uuid4()): the n-th token handed out
Uuid(n) == <<"uuid", n>>

\* the ids a caller of /hitl/resolve may send: those of the records there
\* are, and one that no record has (Uuid(0) is never handed out)
RequestIds(store) == DOMAIN store \cup {Uuid(0)}

\* request bodies of /hitl/resolve, less the id
Decisions ==
  { [action |-> "approve"],
    [action |-> "reject"],
    [action |-> "escalate"],
    [action |-> "edit_problem"],
    [action |-> "edit_problem", edited_problem_text |-> ""],
    [action |-> "edit_problem", edited_problem_text |-> "p2"],
    [action |-> "correct_solution"],
    [action |-> "correct_solution",
     corrected_solution |-> [final_answer |-> "x=7"]],
    [action |-> "correct_solution",
     corrected_solution |-> [final_answer |-> "", steps |-> <<>>]],
    [action |-> "correct_solution",
     corrected_solution |-> [final_answer |-> "x=7", steps |-> <<"t1">>]] }

\* ------------------------------------------------------------------
\* State
\* ------------------------------------------------------------------

VARIABLES
  HITL_STORE,  \* the ledger: hitl_id -> record
  run,         \* the calls of process_problem: position, locals, result
  resume       \* the calls of resume_from_hitl: position, locals, result

vars == <<HITL_STORE, run, resume>>

\* a call that has not been made yet
NotStarted ==
  [pc |-> "start", calls |-> <<>>, result |-> [status |-> "NONE"]]

Init ==
  /\ HITL_STORE = <<>>
  /\ run = [i \in Runs |-> NotStarted]
  /\ resume = [k \in Resumes |-> NotStarted]

\* the calls made so far
CallsMade ==
  Cardinality({i \in Runs : run[i].pc # "start"})
  + Cardinality({k \in Resumes : resume[k].pc # "start"})

\* the call returns result (or ends in the exception result stands for);
\* its locals go out of scope
Return(call, result) ==
  [pc |-> "done", calls |-> call.calls, result |-> result,
   input |-> call.input]

\* ------------------------------------------------------------------
\* process_problem (src/main.py), one action per stage
\* ------------------------------------------------------------------

\* the out-of-scope stop is missing
IsOutOfScope_Never(route_info) == FALSE

\* route_info["route"] == "out_of_scope"
IsOutOfScope(route_info) == route_info.route = "out_of_scope"

\* the stop on a failed candidate is missing
SolveRejected_Never(solver_result) == FALSE

\* solver_result.get("status") != "SOLVED"
SolveRejected(solver_result) == Get(solver_result, "status", None) # "SOLVED"

\* the gate hands nothing to a human
NeedsReview_Never(verification) == FALSE

\* the gate: the condition under which the run is handed to a human
NeedsReview(verification) ==
  \/ Get(verification, "verdict", None) # "correct"
  \/ FloatLt(Get(verification, "confidence", Num(0)), Num(CONFIDENCE_THRESHOLD))
  \/ Get(verification, "requires_hitl", FALSE)

\* the record is built from the trace as it was before Verify
NewRecord_StaleTrace(problem_data, solver_result, verification, agent_trace) ==
  [state |-> "PENDING_REVIEW",
   problem_data |-> problem_data,
   solution |-> solver_result,
   verification |-> verification,
   agent_trace |-> SubSeq(agent_trace, 1, 2),
   hitl_reason |->
     [verdict |-> Get(verification, "verdict", None),
      confidence |-> Get(verification, "confidence", None),
      requires_hitl |-> Get(verification, "requires_hitl", FALSE)]]

\* the record a suspended run leaves in the ledger
NewRecord(problem_data, solver_result, verification, agent_trace) ==
  [state |-> "PENDING_REVIEW",
   problem_data |-> problem_data,
   solution |-> solver_result,
   verification |-> verification,
   agent_trace |-> agent_trace,
   hitl_reason |->
     [verdict |-> Get(verification, "verdict", None),
      confidence |-> Get(verification, "confidence", None),
      requires_hitl |-> Get(verification, "requires_hitl", FALSE)]]

\* what a suspended run returns
SuspendedOutcome(hitl_id, record) ==
  [status |-> "HITL_REQUIRED", hitl_request_id |-> hitl_id,
   hitl_reason |-> record.hitl_reason]

\* what a run that went through returns
SuccessOutcome(solver_result, explanation, verification, agent_trace) ==
  [status |-> "SUCCESS",
   final_answer |-> solver_result.final_answer,
   steps |-> solver_result.steps,
   explanation |-> explanation,
   confidence |-> verification.confidence,
   agent_trace |-> agent_trace]

\* every run is given the same token
FreshId_Reused(store) == Uuid(1)

\* hitl_id = str(uuid.uuid4()): a token no record has yet
FreshId(store) == Uuid(Cardinality(DOMAIN store) + 1)

\* lines 59-66: the call starts, Route, and the out-of-scope stop
RouteStep(i) ==
  /\ run[i].pc = "start"
  /\ \A j \in Runs : j < i => run[j].pc # "start"
  /\ CallsMade < MaxCalls
  /\ \E problem_data \in Problems, fallback \in LlmRouteOutcomes :
       LET route_info == route(problem_data, fallback)
           agent_trace == <<[agent |-> "IntentRouter", output |-> route_info]>>
           call == [pc |-> "solve", calls |-> <<"Route">>,
                    result |-> [status |-> "NONE"], input |-> problem_data]
       IN  run' = [run EXCEPT ![i] =
             IF IsRaised(route_info) THEN Return(call, route_info)
             ELSE IF IsOutOfScope(route_info)
             THEN Return(call, [status |-> "OUT_OF_SCOPE",
                                agent_trace |-> agent_trace])
             ELSE [pc |-> "solve", calls |-> call.calls, result |-> call.result,
                   input |-> problem_data, route_info |-> route_info,
                   agent_trace |-> agent_trace]]
  /\ UNCHANGED <<HITL_STORE, resume>>

\* lines 68-78: Solve, and the stop on a candidate that is not SOLVED
SolveStep(i) ==
  /\ run[i].pc = "solve"
  /\ \E llm_response \in SolverReplies :
       LET c == run[i]
           solver_result ==
             solve(c.input.problem_text, c.route_info.route,
                   c.route_info.difficulty,
                   Get(c.route_info, "tools_allowed", <<>>), llm_response)
           agent_trace ==
             Append(c.agent_trace, [agent |-> "Solver", output |-> solver_result])
           call == [c EXCEPT !.calls = Append(@, "Solve")]
       IN  run' = [run EXCEPT ![i] =
             IF IsRaised(solver_result) THEN Return(call, solver_result)
             ELSE IF SolveRejected(solver_result)
             THEN Return(call, [status |-> "FAILED", agent_trace |-> agent_trace])
             ELSE [pc |-> "verify", calls |-> call.calls, result |-> c.result,
                   input |-> c.input, route_info |-> c.route_info,
                   solver_result |-> solver_result,
                   agent_trace |-> agent_trace]]
  /\ UNCHANGED <<HITL_STORE, resume>>

\* Verify is called again when the verifier's model was unavailable
VerifyStep_Retry(i) ==
  /\ run[i].pc = "verify"
  /\ \E llm_response \in VerifierReplies :
       LET c == run[i]
           verification ==
             verify(c.input.problem_text, c.solver_result, c.route_info.route,
                    llm_response)
           call == [c EXCEPT !.calls = Append(@, "Verify")]
       IN  run' = [run EXCEPT ![i] =
             IF IsRaised(verification) THEN Return(call, verification)
             ELSE IF llm_response = LlmFailed /\ Len(c.calls) < 3
             THEN call
             ELSE [pc |-> "gate", calls |-> call.calls, result |-> c.result,
                   input |-> c.input, route_info |-> c.route_info,
                   solver_result |-> c.solver_result,
                   verification |-> verification,
                   agent_trace |->
                     Append(c.agent_trace,
                            [agent |-> "Verifier", output |-> verification])]]
  /\ UNCHANGED <<HITL_STORE, resume>>

\* lines 80-85: Verify
VerifyStep(i) ==
  /\ run[i].pc = "verify"
  /\ \E llm_response \in VerifierReplies :
       LET c == run[i]
           verification ==
             verify(c.input.problem_text, c.solver_result, c.route_info.route,
                    llm_response)
           call == [c EXCEPT !.calls = Append(@, "Verify")]
       IN  run' = [run EXCEPT ![i] =
             IF IsRaised(verification) THEN Return(call, verification)
             ELSE [pc |-> "gate", calls |-> call.calls, result |-> c.result,
                   input |-> c.input, route_info |-> c.route_info,
                   solver_result |-> c.solver_result,
                   verification |-> verification,
                   agent_trace |->
                     Append(c.agent_trace,
                            [agent |-> "Verifier", output |-> verification])]]
  /\ UNCHANGED <<HITL_STORE, resume>>

\* lines 87-111: the gate; on review the run is stored and suspended
GateStep(i) ==
  /\ run[i].pc = "gate"
  /\ LET c == run[i]
         hitl_id == FreshId(HITL_STORE)
         record == NewRecord(c.input, c.solver_result, c.verification,
                             c.agent_trace)
     IN  IF NeedsReview(c.verification)
         THEN /\ HITL_STORE' = SetKey(HITL_STORE, hitl_id, record)
              /\ run' = [run EXCEPT ![i] =
                   Return(c, SuspendedOutcome(hitl_id, record))]
         ELSE /\ run' = [run EXCEPT ![i].pc = "explain"]
              /\ UNCHANGED HITL_STORE
  /\ UNCHANGED resume

\* lines 113-126: Explain, and the final outcome
ExplainStep(i) ==
  /\ run[i].pc = "explain"
  /\ \E response \in ExplainerReplies :
       LET c == run[i]
           explanation ==
             explain(c.input.problem_text, c.solver_result,
                     c.verification.confidence, response)
           call == [c EXCEPT !.calls = Append(@, "Explain")]
       IN  run' = [run EXCEPT ![i] =
             IF IsRaised(explanation) THEN Return(call, explanation)
             ELSE Return(call, SuccessOutcome(c.solver_result, explanation,
                                              c.verification, c.agent_trace))]
  /\ UNCHANGED <<HITL_STORE, resume>>

process_problem(i) ==
  RouteStep(i) \/ SolveStep(i) \/ VerifyStep(i) \/ GateStep(i) \/ ExplainStep(i)

\* ------------------------------------------------------------------
\* resume_from_hitl (src/main.py)
\* ------------------------------------------------------------------

Error(message) == [status |-> "ERROR", error |-> message]

\* the check of the action is missing
ActionRefused_Never(action) == FALSE

\* action not in ALLOWED_HITL_ACTIONS
ActionRefused(action) == action \notin ALLOWED_HITL_ACTIONS

\* record["state"] in TERMINAL_STATES
IsTerminal(record) == record.state \in TERMINAL_STATES

\* not payload.get("edited_problem_text"): absent, None or empty
EditedTextMissing(payload) ==
  Get(payload, "edited_problem_text", None) \in {None, ""}

\* not payload.get("corrected_solution"): absent, None or an empty dict
CorrectedMissing(payload) ==
  \/ "corrected_solution" \notin DOMAIN payload
  \/ DOMAIN payload.corrected_solution = {}

\* not {"final_answer", "steps"}.issubset(corrected)
CorrectedIncomplete(corrected) ==
  ~({"final_answer", "steps"} \subseteq DOMAIN corrected)

\* a rejection is answered before the record is looked up
Admission_RejectUnseen(payload, store) ==
  LET hitl_id == payload.hitl_request_id
      action == payload.action
  IN  IF ActionRefused(action)
      THEN [pc |-> "done", result |-> Error("Invalid HITL action")]
      ELSE IF hitl_id \notin DOMAIN store
      THEN IF action = "reject"
           THEN [pc |-> "done", result |-> [status |-> "REJECTED"]]
           ELSE [pc |-> "done", result |-> Error("Invalid HITL request ID")]
      ELSE IF IsTerminal(store[hitl_id])
      THEN [pc |-> "done",
            result |-> Error("HITL request already resolved (state=RESOLVED)")]
      ELSE IF action = "approve" THEN [pc |-> "explain"]
      ELSE IF action = "reject" THEN [pc |-> "resolve"]
      ELSE IF action = "edit_problem"
      THEN IF EditedTextMissing(payload)
           THEN [pc |-> "done", result |-> Error("edited_problem_text required")]
           ELSE [pc |-> "resolve"]
      ELSE IF action = "correct_solution"
      THEN IF CorrectedMissing(payload)
           THEN [pc |-> "done", result |-> Error("corrected_solution required")]
           ELSE IF CorrectedIncomplete(payload.corrected_solution)
           THEN [pc |-> "done",
                 result |-> Error("corrected_solution must include final_answer and steps")]
           ELSE [pc |-> "explain"]
      ELSE [pc |-> "done", result |-> [status |-> None]]

\* lines 133-148, 170-172, 186-195: what the call decides from the payload
\* and from the record as it reads it: an error to return at once, or the
\* step to go on with
Admission(payload, store) ==
  LET hitl_id == payload.hitl_request_id
      action == payload.action
  IN  IF ActionRefused(action)
      THEN [pc |-> "done", result |-> Error("Invalid HITL action")]
      ELSE IF hitl_id \notin DOMAIN store
      THEN [pc |-> "done", result |-> Error("Invalid HITL request ID")]
      ELSE IF IsTerminal(store[hitl_id])
      THEN [pc |-> "done",
            result |-> Error("HITL request already resolved (state=RESOLVED)")]
      ELSE IF action = "approve" THEN [pc |-> "explain"]
      ELSE IF action = "reject" THEN [pc |-> "resolve"]
      ELSE IF action = "edit_problem"
      THEN IF EditedTextMissing(payload)
           THEN [pc |-> "done", result |-> Error("edited_problem_text required")]
           ELSE [pc |-> "resolve"]
      ELSE IF action = "correct_solution"
      THEN IF CorrectedMissing(payload)
           THEN [pc |-> "done", result |-> Error("corrected_solution required")]
           ELSE IF CorrectedIncomplete(payload.corrected_solution)
           THEN [pc |-> "done",
                 result |-> Error("corrected_solution must include final_answer and steps")]
           ELSE [pc |-> "explain"]
      \* no branch taken: the function ends without a return
      ELSE [pc |-> "done", result |-> [status |-> None]]

\* the call starts: the action, the lookup, the state of the record and the
\* payload of the action are checked
ResumeBegin(k) ==
  /\ resume[k].pc = "start"
  /\ \A j \in Resumes : j < k => resume[j].pc # "start"
  /\ CallsMade < MaxCalls
  /\ \E hitl_id \in RequestIds(HITL_STORE), decision \in Decisions :
       LET payload == SetKey(decision, "hitl_request_id", hitl_id)
           admitted == Admission(payload, HITL_STORE)
           call == [pc |-> admitted.pc, calls |-> <<>>,
                    result |-> [status |-> "NONE"], input |-> payload]
       IN  resume' = [resume EXCEPT ![k] =
             IF admitted.pc = "done" THEN Return(call, admitted.result)
             ELSE call]
  /\ UNCHANGED <<HITL_STORE, run>>

\* the solution and the confidence the call of the explainer is given
ExplainedSolution(payload, record) ==
  IF payload.action = "approve" THEN record.solution
  ELSE payload.corrected_solution

\* a correction is explained at the stored confidence
ExplainedConfidence_Stored(payload, record) == record.verification.confidence

ExplainedConfidence(payload, record) ==
  IF payload.action = "approve" THEN record.verification.confidence
  ELSE Num(CorrectedConfidence)

\* the record is marked RESOLVED before the explainer is called
ResumeExplain_WritesFirst(k) ==
  /\ resume[k].pc = "explain"
  /\ \E response \in ExplainerReplies :
       LET c == resume[k]
           record == HITL_STORE[c.input.hitl_request_id]
           explanation ==
             explain(record.problem_data.problem_text,
                     ExplainedSolution(c.input, record),
                     ExplainedConfidence(c.input, record), response)
           call == [c EXCEPT !.calls = Append(@, "Explain")]
       IN  /\ resume' = [resume EXCEPT ![k] =
                IF IsRaised(explanation) THEN Return(call, explanation)
                ELSE [pc |-> "resolve", calls |-> call.calls,
                      result |-> c.result, input |-> c.input,
                      explanation |-> explanation]]
           /\ HITL_STORE' =
                [HITL_STORE EXCEPT ![c.input.hitl_request_id].state = "RESOLVED"]
  /\ UNCHANGED run

\* lines 151-155 and 197-201: approve and correct_solution call the
\* explainer, which may refuse
ResumeExplain(k) ==
  /\ resume[k].pc = "explain"
  /\ \E response \in ExplainerReplies :
       LET c == resume[k]
           record == HITL_STORE[c.input.hitl_request_id]
           explanation ==
             explain(record.problem_data.problem_text,
                     ExplainedSolution(c.input, record),
                     ExplainedConfidence(c.input, record), response)
           call == [c EXCEPT !.calls = Append(@, "Explain")]
       IN  resume' = [resume EXCEPT ![k] =
             IF IsRaised(explanation) THEN Return(call, explanation)
             ELSE [pc |-> "resolve", calls |-> call.calls, result |-> c.result,
                   input |-> c.input, explanation |-> explanation]]
  /\ UNCHANGED <<HITL_STORE, run>>

\* the edited text is written nowhere
Resolved_EditKeepsText(payload, record) ==
  CASE payload.action \in {"approve", "reject"} ->
         [record EXCEPT !.state = "RESOLVED"]
    [] OTHER ->
         SetKey([record EXCEPT !.state = "RESOLVED"],
                "resolution_type", "EDITED_PROBLEM")

\* a rejection leaves the record as it was
Resolved_RejectKeepsPending(payload, record) ==
  CASE payload.action = "reject" -> record
    [] payload.action = "approve" -> [record EXCEPT !.state = "RESOLVED"]
    [] payload.action = "edit_problem" ->
         SetKey([record EXCEPT
                   !.problem_data = SetKey(@, "problem_text",
                                           payload.edited_problem_text),
                   !.state = "RESOLVED"],
                "resolution_type", "EDITED_PROBLEM")
    [] OTHER ->
         SetKey([record EXCEPT !.state = "RESOLVED"],
                "resolution_type", "EDITED_PROBLEM")

\* an edited record is opened again for review
Resolved_EditReopens(payload, record) ==
  CASE payload.action \in {"approve", "reject"} ->
         [record EXCEPT !.state = "RESOLVED"]
    [] payload.action = "edit_problem" ->
         SetKey([record EXCEPT
                   !.problem_data = SetKey(@, "problem_text",
                                           payload.edited_problem_text),
                   !.state = "PENDING_REVIEW"],
                "resolution_type", "EDITED_PROBLEM")
    [] OTHER ->
         SetKey([record EXCEPT !.state = "RESOLVED"],
                "resolution_type", "EDITED_PROBLEM")

\* the record as the action leaves it
Resolved(payload, record) ==
  CASE payload.action \in {"approve", "reject"} ->
         [record EXCEPT !.state = "RESOLVED"]
    [] payload.action = "edit_problem" ->
         SetKey([record EXCEPT
                   !.problem_data = SetKey(@, "problem_text",
                                           payload.edited_problem_text),
                   !.state = "RESOLVED"],
                "resolution_type", "EDITED_PROBLEM")
    [] OTHER ->
         SetKey([record EXCEPT !.state = "RESOLVED"],
                "resolution_type", "EDITED_PROBLEM")

\* what the action returns; record is the record as the action left it
ResumeOutcome(payload, record, explanation) ==
  CASE payload.action = "approve" ->
         [status |-> "SUCCESS",
          final_answer |-> record.solution.final_answer,
          steps |-> record.solution.steps,
          explanation |-> explanation,
          confidence |-> record.verification.confidence]
    [] payload.action = "reject" -> [status |-> "REJECTED"]
    [] payload.action = "edit_problem" ->
         [status |-> "NEEDS_RERUN",
          updated_problem_data |-> record.problem_data,
          instruction |-> "Re-run pipeline from IntentRouter"]
    [] OTHER ->
         [status |-> "SUCCESS",
          final_answer |-> Get(payload.corrected_solution, "final_answer", None),
          steps |-> Get(payload.corrected_solution, "steps", None),
          explanation |-> explanation,
          confidence |-> Num(CorrectedConfidence)]

\* lines 156-163, 166-167, 174-182, 202-211: the record is written and the
\* outcome returned
ResumeResolve(k) ==
  /\ resume[k].pc = "resolve"
  /\ LET c == resume[k]
         hitl_id == c.input.hitl_request_id
         record == Resolved(c.input, HITL_STORE[hitl_id])
     IN  /\ HITL_STORE' = [HITL_STORE EXCEPT ![hitl_id] = record]
         /\ resume' = [resume EXCEPT ![k] =
              Return(c, ResumeOutcome(c.input, record,
                                      Get(c, "explanation", None)))]
  /\ UNCHANGED run

resume_from_hitl(k) == ResumeBegin(k) \/ ResumeExplain(k) \/ ResumeResolve(k)

Next ==
  \/ \E i \in Runs : process_problem(i)
  \/ \E k \in Resumes : resume_from_hitl(k)

Spec == Init /\ [][Next]_vars

\* ------------------------------------------------------------------
\* Vocabulary of the properties
\* ------------------------------------------------------------------

\* the status a finished call returned; a call that ended in an exception
\* returned none
Status(result) == IF "status" \in DOMAIN result THEN result.status ELSE "EXCEPTION"

\* the call returned one of the outcomes that resolve a record
Resolving(result) == Status(result) \in {"SUCCESS", "REJECTED", "NEEDS_RERUN"}

\* the agents of the events of a trace, in order
Agents(agent_trace) == [n \in DOMAIN agent_trace |-> agent_trace[n].agent]

\* the trace of run i as far as it got
TraceOf(i) ==
  IF "agent_trace" \in DOMAIN run[i] THEN run[i].agent_trace
  ELSE IF "agent_trace" \in DOMAIN run[i].result THEN run[i].result.agent_trace
  ELSE IF Status(run[i].result) = "HITL_REQUIRED"
  THEN HITL_STORE[run[i].result.hitl_request_id].agent_trace
  ELSE <<>>

\* call k of resume_from_hitl starts in this step
Begins(k) == resume[k].pc = "start" /\ resume'[k].pc # "start"

\* the record that call k of resume_from_hitl names is there in that state
PendingFor(payload, store) ==
  /\ payload.hitl_request_id \in DOMAIN store
  /\ store[payload.hitl_request_id].state = "PENDING_REVIEW"

\* ------------------------------------------------------------------
\* C1
\* ------------------------------------------------------------------

\* C1: of the calls of Resume on one record, at most one returns an outcome
\* other than an error (the record is resolved once), whatever the
\* interleaving; in particular the explainer's result is delivered once.
C1_ResolvedOnce ==
  \A k1, k2 \in Resumes :
    ( /\ k1 # k2
      /\ resume[k1].pc = "done" /\ resume[k2].pc = "done"
      /\ resume[k1].input.hitl_request_id = resume[k2].input.hitl_request_id )
    => ~(Resolving(resume[k1].result) /\ Resolving(resume[k2].result))

\* ------------------------------------------------------------------
\* C2
\* ------------------------------------------------------------------

\* C2: a call of Resume that names a RESOLVED record returns ERROR in its
\* first step, with any action and payload, leaves the ledger as it is and
\* calls no capability.
C2_ResolvedIsRejected ==
  [][\A k \in Resumes :
       ( /\ Begins(k)
         /\ resume'[k].input.hitl_request_id \in DOMAIN HITL_STORE
         /\ HITL_STORE[resume'[k].input.hitl_request_id].state = "RESOLVED" )
       => /\ resume'[k].pc = "done"
          /\ Status(resume'[k].result) = "ERROR"
          /\ resume'[k].calls = <<>>
          /\ HITL_STORE' = HITL_STORE]_vars

\* a call of Resume was told that its record is already resolved
C2_Witness ==
  \E k \in Resumes :
    /\ resume[k].pc = "done"
    /\ resume[k].input.action \in {"approve", "edit_problem"}
    /\ Status(resume[k].result) = "ERROR"
    /\ resume[k].result.error = "HITL request already resolved (state=RESOLVED)"
    /\ HITL_STORE[resume[k].input.hitl_request_id].state = "RESOLVED"

\* ------------------------------------------------------------------
\* C3
\* ------------------------------------------------------------------

\* C3: a call of Resume with approve that found its record PENDING_REVIEW
\* (it was not turned away with ERROR) returns SUCCESS with the stored
\* candidate's final_answer and steps and the stored confidence, and the
\* record is RESOLVED.
C3_ApproveReturnsDone ==
  \A k \in Resumes :
    ( /\ resume[k].pc = "done"
      /\ resume[k].input.action = "approve"
      /\ Status(resume[k].result) # "ERROR" )
    => LET record == HITL_STORE[resume[k].input.hitl_request_id]
           result == resume[k].result
       IN  /\ Status(result) = "SUCCESS"
           /\ result.final_answer = record.solution.final_answer
           /\ result.steps = record.solution.steps
           /\ result.confidence = record.verification.confidence
           /\ record.state = "RESOLVED"
           /\ resume[k].calls = <<"Explain">>

\* ------------------------------------------------------------------
\* C4
\* ------------------------------------------------------------------

\* the gate of the specification: PASS iff verdict = correct and
\* confidence >= threshold and needs_review = false
Admit(verification) ==
  /\ verification.verdict = "correct"
  /\ FloatGe(verification.confidence, Num(CONFIDENCE_THRESHOLD))
  /\ ~verification.requires_hitl

\* C4: a run goes on to Explain exactly if its verification satisfies
\* Admit: every run past the gate satisfies it, every suspended run does not.
C4_GatePassIffAdmit ==
  \A i \in Runs :
    /\ run[i].pc = "explain" => Admit(run[i].verification)
    /\ Status(run[i].result) = "SUCCESS" => Admit(TraceOf(i)[3].output)
    /\ Status(run[i].result) = "HITL_REQUIRED" => ~Admit(TraceOf(i)[3].output)

\* ------------------------------------------------------------------
\* C5
\* ------------------------------------------------------------------

\* C5: the step of a run whose gate asks for review adds one record to the
\* ledger, under an id no record had, in state PENDING_REVIEW and holding
\* the run's problem, candidate, verification and trace (Route, Solve,
\* Verify); it returns HITL_REQUIRED with that id and without final_answer,
\* steps or explanation; the explainer was not called; no other record
\* changes.
C5_ReviewSuspends ==
  [][\A i \in Runs :
       ( /\ run[i].pc = "gate"
         /\ run'[i] # run[i]
         /\ NeedsReview(run[i].verification) )
       => LET c == run[i]
              out == run'[i].result
              hitl_id == out.hitl_request_id
              record == HITL_STORE'[hitl_id]
          IN  /\ run'[i].pc = "done"
              /\ Status(out) = "HITL_REQUIRED"
              /\ DOMAIN out \cap {"final_answer", "steps", "explanation"} = {}
              /\ hitl_id \notin DOMAIN HITL_STORE
              /\ DOMAIN HITL_STORE' = DOMAIN HITL_STORE \cup {hitl_id}
              /\ \A h \in DOMAIN HITL_STORE : HITL_STORE'[h] = HITL_STORE[h]
              /\ record.state = "PENDING_REVIEW"
              /\ record.problem_data = c.input
              /\ record.solution = c.solver_result
              /\ record.verification = c.verification
              /\ record.agent_trace = c.agent_trace
              /\ Agents(record.agent_trace) = <<"IntentRouter", "Solver", "Verifier">>
              /\ run'[i].calls = <<"Route", "Solve", "Verify">>]_vars

\* a run was suspended and its record waits for review
C5_Witness ==
  \E i \in Runs :
    /\ run[i].pc = "done"
    /\ Status(run[i].result) = "HITL_REQUIRED"
    /\ HITL_STORE[run[i].result.hitl_request_id].state = "PENDING_REVIEW"
    /\ Len(HITL_STORE[run[i].result.hitl_request_id].agent_trace) = 3

\* ------------------------------------------------------------------
\* C6
\* ------------------------------------------------------------------

\* C6: a run whose routing result is out_of_scope ends in the step that
\* routed it, with OUT_OF_SCOPE, having called Route only, and that step
\* leaves the ledger as it is.
C6_OutOfScopeStops ==
  [][\A i \in Runs :
       ( /\ run[i].pc = "start"
         /\ run'[i].pc # "start"
         /\ Len(TraceOf(i)') >= 1
         /\ TraceOf(i)'[1].output.route = "out_of_scope" )
       => /\ run'[i].pc = "done"
          /\ Status(run'[i].result) = "OUT_OF_SCOPE"
          /\ run'[i].calls = <<"Route">>
          /\ HITL_STORE' = HITL_STORE]_vars

\* a run was routed out of scope and returned
C6_Witness ==
  \E i \in Runs :
    /\ run[i].pc = "done"
    /\ Status(run[i].result) = "OUT_OF_SCOPE"
    /\ run[i].result.agent_trace[1].output.route = "out_of_scope"

\* ------------------------------------------------------------------
\* C7
\* ------------------------------------------------------------------

\* C7: a run whose Solve returned a candidate that is not SOLVED ends in
\* that step with FAILED, having called Route and Solve only (its trace
\* has no Verifier event), and that step leaves the ledger as it is.
C7_FailedCandidateStops ==
  [][\A i \in Runs :
       ( /\ run[i].pc = "solve"
         /\ run'[i].pc # "solve"
         /\ Len(TraceOf(i)') >= 2
         /\ TraceOf(i)'[2].output.status # "SOLVED" )
       => /\ run'[i].pc = "done"
          /\ Status(run'[i].result) = "FAILED"
          /\ run'[i].calls = <<"Route", "Solve">>
          /\ Agents(TraceOf(i)') = <<"IntentRouter", "Solver">>
          /\ HITL_STORE' = HITL_STORE]_vars

\* a run returned FAILED on a candidate the solver refused
C7_Witness ==
  \E i \in Runs :
    /\ run[i].pc = "done"
    /\ Status(run[i].result) = "FAILED"
    /\ run[i].result.agent_trace[2].output.status = "FAILED"
    /\ run[i].result.agent_trace[2].output.reason
         = "Unauthorized tool request: calculator"

\* ------------------------------------------------------------------
\* C8
\* ------------------------------------------------------------------

\* an action outside the closed set, or an action without its payload
BadRequest(payload) ==
  \/ payload.action \notin {"approve", "reject", "edit_problem", "correct_solution"}
  \/ payload.action = "edit_problem" /\ "edited_problem_text" \notin DOMAIN payload
  \/ payload.action = "correct_solution" /\ "corrected_solution" \notin DOMAIN payload

\* C8: a bad request on a PENDING_REVIEW record returns ERROR in its first
\* step, calls no capability and leaves the ledger as it is, so that the
\* record is still admitted for a decision (reject, or a complete
\* correction).
C8_BadRequestLeavesPending ==
  [][\A k \in Resumes :
       ( /\ Begins(k)
         /\ PendingFor(resume'[k].input, HITL_STORE)
         /\ BadRequest(resume'[k].input) )
       => LET hitl_id == resume'[k].input.hitl_request_id
          IN  /\ resume'[k].pc = "done"
              /\ Status(resume'[k].result) = "ERROR"
              /\ resume'[k].calls = <<>>
              /\ HITL_STORE' = HITL_STORE
              /\ Admission([hitl_request_id |-> hitl_id, action |-> "reject"],
                           HITL_STORE').pc = "resolve"
              /\ Admission([hitl_request_id |-> hitl_id,
                            action |-> "correct_solution",
                            corrected_solution |->
                              [final_answer |-> "x=7", steps |-> <<"t1">>]],
                           HITL_STORE').pc = "explain"]_vars

\* a bad request was turned away and a later call resolved the same record
C8_Witness ==
  \E k1, k2 \in Resumes :
    /\ k1 < k2
    /\ resume[k1].pc = "done" /\ resume[k2].pc = "done"
    /\ resume[k1].input.hitl_request_id = resume[k2].input.hitl_request_id
    /\ resume[k1].input.action = "edit_problem"
    /\ BadRequest(resume[k1].input)
    /\ Status(resume[k1].result) = "ERROR"
    /\ resume[k1].result.error = "edited_problem_text required"
    /\ resume[k2].input.action = "edit_problem"
    /\ Status(resume[k2].result) = "NEEDS_RERUN"

\* ------------------------------------------------------------------
\* C9
\* ------------------------------------------------------------------

\* a correction that has both keys, one of them with an empty value
EmptyCorrection(payload) ==
  /\ payload.action = "correct_solution"
  /\ "corrected_solution" \in DOMAIN payload
  /\ {"final_answer", "steps"} \subseteq DOMAIN payload.corrected_solution
  /\ \/ payload.corrected_solution.final_answer = ""
     \/ payload.corrected_solution.steps = <<>>

\* C9: a call of Resume with an empty correction returns ERROR and does
\* not call the explainer.
C9_EmptyCorrectionRefused ==
  \A k \in Resumes :
    (resume[k].pc = "done" /\ EmptyCorrection(resume[k].input))
    => Status(resume[k].result) = "ERROR" /\ resume[k].calls = <<>>

\* ------------------------------------------------------------------
\* C10
\* ------------------------------------------------------------------

\* a correction with a final_answer and steps, neither of them empty
FullCorrection(payload) ==
  /\ payload.action = "correct_solution"
  /\ "corrected_solution" \in DOMAIN payload
  /\ {"final_answer", "steps"} \subseteq DOMAIN payload.corrected_solution
  /\ payload.corrected_solution.final_answer # ""
  /\ payload.corrected_solution.steps # <<>>

\* C10: a full correction on a PENDING_REVIEW record is admitted; the one
\* capability the call invokes is the explainer (never Verify), which does
\* not refuse; the call then marks the record RESOLVED and returns SUCCESS
\* with confidence 1.0 and the final_answer and steps of the correction.
C10_CorrectionIsFinal ==
  [][\A k \in Resumes :
       /\ ( /\ Begins(k)
            /\ PendingFor(resume'[k].input, HITL_STORE)
            /\ FullCorrection(resume'[k].input) )
          => resume'[k].pc = "explain" /\ HITL_STORE' = HITL_STORE
       /\ ( /\ resume[k].pc = "explain"
            /\ resume'[k] # resume[k]
            /\ FullCorrection(resume[k].input) )
          => /\ resume'[k].pc = "resolve"
             /\ resume'[k].calls = <<"Explain">>
             /\ HITL_STORE' = HITL_STORE
       /\ ( /\ resume[k].pc = "resolve"
            /\ resume'[k] # resume[k]
            /\ FullCorrection(resume[k].input) )
          => LET out == resume'[k].result
                 corrected == resume[k].input.corrected_solution
             IN  /\ resume'[k].pc = "done"
                 /\ Status(out) = "SUCCESS"
                 /\ out.confidence = Num(100)
                 /\ out.final_answer = corrected.final_answer
                 /\ out.steps = corrected.steps
                 /\ resume'[k].calls = <<"Explain">>
                 /\ HITL_STORE'[resume[k].input.hitl_request_id].state
                      = "RESOLVED"]_vars

\* a correction was accepted on a record whose stored confidence is low
C10_Witness ==
  \E k \in Resumes :
    /\ resume[k].pc = "done"
    /\ FullCorrection(resume[k].input)
    /\ Status(resume[k].result) = "SUCCESS"
    /\ resume[k].result.confidence = Num(100)
    /\ resume[k].result.final_answer = "x=7"
    /\ FloatLt(HITL_STORE[resume[k].input.hitl_request_id].verification.confidence,
               Num(CONFIDENCE_THRESHOLD))
    /\ HITL_STORE[resume[k].input.hitl_request_id].state = "RESOLVED"

\* ------------------------------------------------------------------
\* C11
\* ------------------------------------------------------------------

\* an edit_problem decision that carries a text
EditWithText(payload) ==
  /\ payload.action = "edit_problem"
  /\ "edited_problem_text" \in DOMAIN payload
  /\ payload.edited_problem_text # ""

\* every decision on the record hitl_id is answered with an error in that
\* ledger
RefusedIn(hitl_id, store) ==
  \A decision \in Decisions :
    LET a == Admission(SetKey(decision, "hitl_request_id", hitl_id), store)
    IN  a.pc = "done" /\ Status(a.result) = "ERROR"

\* C11: an edit_problem with a non-empty text on a PENDING_REVIEW record is
\* admitted and then returns NEEDS_RERUN (never SUCCESS or HITL_REQUIRED)
\* carrying the stored problem with its text replaced by the edited text; the
\* call invokes none of Route, Solve, Verify, Explain, creates no record, and
\* leaves the record RESOLVED, so that any Resume that starts on it afterwards
\* is answered with an error.
C11_EditAsksRerun ==
  [][\A k \in Resumes :
       /\ ( /\ Begins(k)
            /\ PendingFor(resume'[k].input, HITL_STORE)
            /\ EditWithText(resume'[k].input) )
          => /\ resume'[k].pc = "resolve"
             /\ resume'[k].calls = <<>>
             /\ HITL_STORE' = HITL_STORE
       /\ ( /\ resume[k].pc = "resolve"
            /\ resume'[k] # resume[k]
            /\ EditWithText(resume[k].input) )
          => LET out == resume'[k].result
                 hitl_id == resume[k].input.hitl_request_id
                 before == HITL_STORE[hitl_id].problem_data
             IN  /\ resume'[k].pc = "done"
                 /\ Status(out) = "NEEDS_RERUN"
                 /\ out.updated_problem_data.problem_text
                      = resume[k].input.edited_problem_text
                 /\ \A f \in DOMAIN before \ {"problem_text"} :
                      /\ f \in DOMAIN out.updated_problem_data
                      /\ out.updated_problem_data[f] = before[f]
                 /\ HITL_STORE'[hitl_id].problem_data = out.updated_problem_data
                 /\ resume'[k].calls = <<>>
                 /\ DOMAIN HITL_STORE' = DOMAIN HITL_STORE
                 /\ HITL_STORE'[hitl_id].state = "RESOLVED"
                 /\ RefusedIn(hitl_id, HITL_STORE')]_vars

\* an edit was answered with NEEDS_RERUN and the text p2, and a Resume on the
\* same record that started after it was answered with an error
C11_Witness ==
  \E k1, k2 \in Resumes :
    /\ k1 < k2
    /\ resume[k1].pc = "done" /\ resume[k2].pc = "done"
    /\ resume[k1].input.hitl_request_id = resume[k2].input.hitl_request_id
    /\ EditWithText(resume[k1].input)
    /\ Status(resume[k1].result) = "NEEDS_RERUN"
    /\ resume[k1].result.updated_problem_data.problem_text = "p2"
    /\ "topic" \in DOMAIN resume[k1].result.updated_problem_data
    /\ Status(resume[k2].result) = "ERROR"
    /\ resume[k2].result.error = "HITL request already resolved (state=RESOLVED)"

\* ------------------------------------------------------------------
\* C12
\* ------------------------------------------------------------------

\* a call of Resume on the record hitl_id has returned REJECTED
RejectedAlready(hitl_id) ==
  \E k \in Resumes :
    /\ resume[k].pc = "done"
    /\ resume[k].input.hitl_request_id = hitl_id
    /\ Status(resume[k].result) = "REJECTED"

\* C12: a reject on a PENDING_REVIEW record is admitted and then returns
\* REJECTED and nothing else (no final_answer, steps or explanation); the
\* call invokes no capability and leaves the record RESOLVED; every Resume
\* that starts on the record after a REJECTED was returned for it is answered
\* with an error, whatever its action.
C12_RejectIsFinal ==
  [][\A k \in Resumes :
       /\ ( /\ Begins(k)
            /\ PendingFor(resume'[k].input, HITL_STORE)
            /\ resume'[k].input.action = "reject" )
          => /\ resume'[k].pc = "resolve"
             /\ resume'[k].calls = <<>>
             /\ HITL_STORE' = HITL_STORE
       /\ ( /\ resume[k].pc = "resolve"
            /\ resume'[k] # resume[k]
            /\ resume[k].input.action = "reject" )
          => LET hitl_id == resume[k].input.hitl_request_id
             IN  /\ resume'[k].pc = "done"
                 /\ resume'[k].result = [status |-> "REJECTED"]
                 /\ resume'[k].calls = <<>>
                 /\ DOMAIN HITL_STORE' = DOMAIN HITL_STORE
                 /\ HITL_STORE'[hitl_id].state = "RESOLVED"
                 /\ HITL_STORE'[hitl_id].solution = HITL_STORE[hitl_id].solution
       /\ ( /\ Begins(k)
            /\ RejectedAlready(resume'[k].input.hitl_request_id) )
          => /\ resume'[k].pc = "done"
             /\ Status(resume'[k].result) = "ERROR"
             /\ resume'[k].calls = <<>>
             /\ HITL_STORE' = HITL_STORE]_vars

\* a suspended run's record was rejected, and an approve that started on it
\* afterwards was answered with an error
C12_Witness ==
  \E i \in Runs, k1, k2 \in Resumes :
    /\ run[i].pc = "done"
    /\ Status(run[i].result) = "HITL_REQUIRED"
    /\ resume[k1].pc = "done" /\ resume[k2].pc = "done"
    /\ resume[k1].input.hitl_request_id = run[i].result.hitl_request_id
    /\ resume[k2].input.hitl_request_id = run[i].result.hitl_request_id
    /\ resume[k1].input.action = "reject"
    /\ resume[k1].result = [status |-> "REJECTED"]
    /\ resume[k2].input.action = "approve"
    /\ Status(resume[k2].result) = "ERROR"
    /\ HITL_STORE[run[i].result.hitl_request_id].state = "RESOLVED"

\* ------------------------------------------------------------------
\* C13
\* ------------------------------------------------------------------

\* the agents that sign the events of Route, Solve and Verify
StageAgents == <<"IntentRouter", "Solver", "Verifier">>

\* C13: the trace of a run that returned (for a suspended run, the trace kept
\* in its record) has one event for each stage the run entered, in the order
\* Route, Solve, Verify, Explain: as many events as stages entered, the
\* first three signed by the router, the solver and the verifier; so the
\* trace of a SUCCESS has four events, the last one for Explain.
C13_TraceCoversStages ==
  \A i \in Runs :
    (run[i].pc = "done" /\ ~IsRaised(run[i].result))
    => /\ Len(TraceOf(i)) = Len(run[i].calls)
       /\ \A n \in DOMAIN TraceOf(i) :
            n <= Len(StageAgents) => TraceOf(i)[n].agent = StageAgents[n]
       /\ Status(run[i].result) = "SUCCESS" => Len(TraceOf(i)) = 4

\* ------------------------------------------------------------------
\* C14
\* ------------------------------------------------------------------

\* the outcomes of process_problem and of resume_from_hitl
RunOutcomes == {"OUT_OF_SCOPE", "FAILED", "HITL_REQUIRED", "SUCCESS"}

ResumeOutcomes == {"ERROR", "REJECTED", "NEEDS_RERUN", "SUCCESS"}

\* C14: no call ends in an exception: whatever the input and whatever the
\* capabilities answer, a finished process_problem has returned one of
\* OUT_OF_SCOPE, FAILED, HITL_REQUIRED, SUCCESS and a finished
\* resume_from_hitl one of ERROR, REJECTED, NEEDS_RERUN, SUCCESS.
C14_NoRawException ==
  /\ \A i \in Runs :
       run[i].pc = "done"
       => ~IsRaised(run[i].result) /\ Status(run[i].result) \in RunOutcomes
  /\ \A k \in Resumes :
       resume[k].pc = "done"
       => /\ ~IsRaised(resume[k].result)
          /\ Status(resume[k].result) \in ResumeOutcomes

\* ------------------------------------------------------------------
\* C15
\* ------------------------------------------------------------------

\* none of the three conditions under which the gate of process_problem
\* suspends a run holds of the verification
PassedGate(verification) ==
  /\ verification.verdict = "correct"
  /\ ~FloatLt(verification.confidence, Num(85))
  /\ ~verification.requires_hitl

\* the stages of a run that went all the way
AllStages == <<"Route", "Solve", "Verify", "Explain">>

\* C15: the explainer is invoked from three places only. A run that invoked
\* it had a candidate that is SOLVED and a verification that passed the gate,
\* invoked it last and once, and is not (and does not become) OUT_OF_SCOPE,
\* FAILED or HITL_REQUIRED. A call of Resume that invoked it carries approve
\* or correct_solution (the latter with a corrected solution) on a record of
\* the ledger, and invoked it once; a reject, an edit_problem or a refused
\* request invokes nothing.
C15_ExplainOnlyWhenSettled ==
  /\ \A i \in Runs :
       ("Explain" \in {run[i].calls[n] : n \in DOMAIN run[i].calls})
       => /\ run[i].calls = AllStages
          /\ Len(TraceOf(i)) = 3
          /\ TraceOf(i)[1].output.route # "out_of_scope"
          /\ TraceOf(i)[2].output.status = "SOLVED"
          /\ PassedGate(TraceOf(i)[3].output)
          /\ Status(run[i].result) \in {"NONE", "SUCCESS"}
  /\ \A i \in Runs :
       Status(run[i].result) \in {"OUT_OF_SCOPE", "FAILED", "HITL_REQUIRED"}
       => "Explain" \notin {run[i].calls[n] : n \in DOMAIN run[i].calls}
  /\ \A k \in Resumes :
       (resume[k].calls # <<>>)
       => /\ resume[k].calls = <<"Explain">>
          /\ resume[k].input.action \in {"approve", "correct_solution"}
          /\ resume[k].input.hitl_request_id \in DOMAIN HITL_STORE
          /\ resume[k].input.action = "correct_solution"
             => /\ "corrected_solution" \in DOMAIN resume[k].input
                /\ {"final_answer", "steps"}
                     \subseteq DOMAIN resume[k].input.corrected_solution
          /\ Status(resume[k].result) \in {"NONE", "SUCCESS", "EXCEPTION"}

\* the explainer was invoked by an approve on a suspended run's record, which
\* returned SUCCESS, and a rejection that came after it invoked nothing
C15_Witness ==
  \E i \in Runs, k1, k2 \in Resumes :
    /\ Status(run[i].result) = "HITL_REQUIRED"
    /\ run[i].calls = <<"Route", "Solve", "Verify">>
    /\ resume[k1].pc = "done" /\ resume[k2].pc = "done"
    /\ resume[k1].input.hitl_request_id = run[i].result.hitl_request_id
    /\ resume[k1].input.action = "approve"
    /\ resume[k1].calls = <<"Explain">>
    /\ Status(resume[k1].result) = "SUCCESS"
    /\ resume[k2].input.hitl_request_id = run[i].result.hitl_request_id
    /\ resume[k2].input.action = "reject"
    /\ Status(resume[k2].result) = "ERROR"
    /\ resume[k2].calls = <<>>

\* ------------------------------------------------------------------
\* C16
\* ------------------------------------------------------------------

\* C16: a SUCCESS of process_problem carries the final_answer and the steps
\* of the solver's result and the confidence of the verifier's result, and
\* that verification has the verdict correct and a confidence >= 0.85.
C16_DoneCarriesVerified ==
  \A i \in Runs :
    (run[i].pc = "done" /\ Status(run[i].result) = "SUCCESS")
    => LET out == run[i].result
           solver_result == out.agent_trace[2].output
           verification == out.agent_trace[3].output
       IN  /\ out.final_answer = solver_result.final_answer
           /\ out.steps = solver_result.steps
           /\ out.confidence = verification.confidence
           /\ verification.verdict = "correct"
           /\ FloatGe(out.confidence, Num(85))

\* ------------------------------------------------------------------
\* C17
\* ------------------------------------------------------------------

\* how far a call of process_problem has got
Position(pc) ==
  CASE pc = "start" -> 0
    [] pc = "solve" -> 1
    [] pc = "verify" -> 2
    [] pc = "gate" -> 3
    [] pc = "explain" -> 4
    [] pc = "done" -> 5

\* s is the first Len(s) elements of t
IsPrefix(s, t) == Len(s) <= Len(t) /\ \A n \in DOMAIN s : s[n] = t[n]

\* the stages a run has invoked when it stands at pc and has not returned
StagesBefore(pc) == SubSeq(AllStages, 1, Position(pc))

\* C17: the stages a run has entered are always the first ones of Route,
\* Solve, Verify, Explain, each once (no stage is entered twice or out of
\* order), a run that has not returned has entered exactly the stages before
\* its position, with the gate between Verify and Explain, and it can always
\* take its next step; every step of a run moves it strictly forward through
\* start, solve, verify, gate, explain, done and enters at most one stage, so
\* that a run whose steps are taken returns after at most five of them; a run
\* whose capability calls all returned ends in exactly one of OUT_OF_SCOPE,
\* FAILED, HITL_REQUIRED, SUCCESS.
C17_RunIsOnePass ==
  /\ [](\A i \in Runs :
          /\ IsPrefix(run[i].calls, AllStages)
          /\ run[i].pc \notin {"start", "done"}
             => /\ run[i].calls
                     = StagesBefore(IF run[i].pc = "explain" THEN "gate"
                                    ELSE run[i].pc)
                /\ ENABLED process_problem(i)
          /\ (run[i].pc = "done" /\ ~IsRaised(run[i].result))
             => Status(run[i].result) \in RunOutcomes)
  /\ [][\A i \in Runs :
          run'[i] # run[i]
          => /\ Position(run'[i].pc) > Position(run[i].pc)
             /\ Len(run'[i].calls) <= Len(run[i].calls) + 1
             /\ IsPrefix(run[i].calls, run'[i].calls)]_vars

\* runs ended in each of the outcomes OUT_OF_SCOPE or FAILED, HITL_REQUIRED
\* and SUCCESS, after one or two, three and four stages
C17_Witness ==
  \E i1, i2, i3 \in Runs :
    /\ run[i1].pc = "done" /\ run[i2].pc = "done" /\ run[i3].pc = "done"
    /\ Status(run[i1].result) = "FAILED"
    /\ run[i1].calls = <<"Route", "Solve">>
    /\ Status(run[i2].result) = "HITL_REQUIRED"
    /\ run[i2].calls = <<"Route", "Solve", "Verify">>
    /\ Status(run[i3].result) = "SUCCESS"
    /\ run[i3].calls = AllStages

\* ------------------------------------------------------------------
\* C18
\* ------------------------------------------------------------------

\* call k of resume_from_hitl writes the record hitl_id in this step
ResumeWrites(k, hitl_id) ==
  /\ resume[k].pc = "resolve"
  /\ resume'[k].pc = "done"
  /\ resume[k].input.hitl_request_id = hitl_id
  /\ Resolving(resume'[k].result)

\* run i is suspended into the new record hitl_id in this step
RunSuspends(i, hitl_id) ==
  /\ run[i].pc = "gate"
  /\ ~PassedGate(run[i].verification)
  /\ run'[i].pc = "done"
  /\ Status(run'[i].result) = "HITL_REQUIRED"
  /\ run'[i].result.hitl_request_id = hitl_id

\* C18: in every step, every record of the ledger is still there afterwards;
\* a record that is RESOLVED stays RESOLVED; a record changes only in a step
\* in which a call of Resume on it resolves it; and a record is new only in
\* a step in which the gate of a run suspended that run into it, as
\* PENDING_REVIEW, one record per step.
C18_LedgerMonotone ==
  [][/\ \A h \in DOMAIN HITL_STORE :
          /\ h \in DOMAIN HITL_STORE'
          /\ HITL_STORE[h].state = "RESOLVED"
             => HITL_STORE'[h].state = "RESOLVED"
          /\ HITL_STORE'[h] # HITL_STORE[h]
             => /\ \E k \in Resumes : ResumeWrites(k, h)
                /\ HITL_STORE'[h].state = "RESOLVED"
     /\ \A h \in DOMAIN HITL_STORE' \ DOMAIN HITL_STORE :
          /\ \E i \in Runs : RunSuspends(i, h)
          /\ HITL_STORE'[h].state = "PENDING_REVIEW"
          /\ DOMAIN HITL_STORE' = DOMAIN HITL_STORE \cup {h}]_vars

\* two records were created by two suspended runs; one of them was resolved
\* and the other is still PENDING_REVIEW
C18_Witness ==
  \E i1, i2 \in Runs, k \in Resumes :
    /\ i1 # i2
    /\ Status(run[i1].result) = "HITL_REQUIRED"
    /\ Status(run[i2].result) = "HITL_REQUIRED"
    /\ run[i1].result.hitl_request_id # run[i2].result.hitl_request_id
    /\ resume[k].pc = "done"
    /\ Resolving(resume[k].result)
    /\ resume[k].input.hitl_request_id = run[i1].result.hitl_request_id
    /\ HITL_STORE[run[i1].result.hitl_request_id].state = "RESOLVED"
    /\ HITL_STORE[run[i2].result.hitl_request_id].state = "PENDING_REVIEW"

\* ------------------------------------------------------------------
\* C19
\* ------------------------------------------------------------------

\* what a run returned, without the token of its record
Outcome(result) ==
  [f \in DOMAIN result \ {"hitl_request_id"} |-> result[f]]

\* two runs were given the same input and the same capability results: the
\* same stages answered the same (Route, Solve, Verify in the trace, Explain
\* in the explanation)
SameResults(i, j) ==
  /\ run[i].input = run[j].input
  /\ run[i].calls = run[j].calls
  /\ TraceOf(i) = TraceOf(j)
  /\ ("explanation" \in DOMAIN run[i].result
        /\ "explanation" \in DOMAIN run[j].result)
     => run[i].result.explanation = run[j].result.explanation

\* C19: runs do not interfere. Two runs that returned after the same input and
\* the same capability results returned the same outcome and the same trace,
\* whatever else ran beside them (the token of the record apart).
\* A step of one run changes no other call, and it leaves the ledger as it
\* was unless it suspends the run: then it writes one record, under the id it
\* returns, an id no record has and no other run was given, and every
\* record there was is unchanged. A step that is not the run's own does not
\* change the run.
C19_RunsIndependent ==
  /\ [](\A i, j \in Runs :
          ( /\ run[i].pc = "done" /\ run[j].pc = "done"
            /\ ~IsRaised(run[i].result) /\ ~IsRaised(run[j].result)
            /\ SameResults(i, j) )
          => Outcome(run[i].result) = Outcome(run[j].result))
  /\ [][\A i \in Runs :
          /\ run'[i] # run[i]
             => /\ process_problem(i)
                /\ \A j \in Runs \ {i} : run'[j] = run[j]
                /\ resume' = resume
                /\ \A h \in DOMAIN HITL_STORE :
                     h \in DOMAIN HITL_STORE' /\ HITL_STORE'[h] = HITL_STORE[h]
                /\ IF Status(run'[i].result) = "HITL_REQUIRED"
                   THEN LET hitl_id == run'[i].result.hitl_request_id
                        IN  /\ hitl_id \notin DOMAIN HITL_STORE
                            /\ DOMAIN HITL_STORE'
                                 = DOMAIN HITL_STORE \cup {hitl_id}
                            /\ HITL_STORE'[hitl_id].problem_data = run[i].input
                            /\ \A j \in Runs \ {i} :
                                 Status(run[j].result) = "HITL_REQUIRED"
                                 => run[j].result.hitl_request_id # hitl_id
                   ELSE HITL_STORE' = HITL_STORE
          /\ (\E k \in Resumes : resume'[k] # resume[k])
             => run' = run]_vars

\* two runs were suspended into two records for different reasons, and each
\* record still holds the reason its own run was given
C19_Witness ==
  \E i1, i2 \in Runs :
    /\ i1 # i2
    /\ run[i1].pc = "done" /\ run[i2].pc = "done"
    /\ Status(run[i1].result) = "HITL_REQUIRED"
    /\ Status(run[i2].result) = "HITL_REQUIRED"
    /\ run[i1].result.hitl_request_id # run[i2].result.hitl_request_id
    /\ run[i1].result.hitl_reason # run[i2].result.hitl_reason
    /\ HITL_STORE[run[i1].result.hitl_request_id].hitl_reason
         = run[i1].result.hitl_reason
    /\ HITL_STORE[run[i2].result.hitl_request_id].hitl_reason
         = run[i2].result.hitl_reason

\* ------------------------------------------------------------------
\* C20
\* ------------------------------------------------------------------

\* run i has a verification (Verify returned one to it)
Verified(i) == Len(TraceOf(i)) >= 3

\* the verification Verify returned to run i
VerificationOf(i) == TraceOf(i)[3].output

\* the gate let run i through / handed run i to a human
WentOn(i) ==
  \/ run[i].pc = "explain"
  \/ "Explain" \in {run[i].calls[n] : n \in DOMAIN run[i].calls}

Suspended(i) == run[i].pc = "done" /\ Status(run[i].result) = "HITL_REQUIRED"

\* C20: every verification Verify returned has requires_hitl equal to
\* (verdict # correct or confidence < 0.85), 0.85 being the threshold of the
\* gate as well; no run went on to Explain with a verification that has
\* requires_hitl set; and of the runs that reached the gate, those that were
\* suspended are exactly those whose verification has requires_hitl set.
C20_FlagMatchesGate ==
  /\ VerifierThreshold = CONFIDENCE_THRESHOLD
  /\ \A i \in Runs :
       Verified(i)
       => LET v == VerificationOf(i)
          IN  /\ v.requires_hitl
                   = (v.verdict # "correct" \/ FloatLt(v.confidence, Num(85)))
              /\ ~(WentOn(i) /\ v.requires_hitl)
              /\ (WentOn(i) \/ Suspended(i))
                 => (Suspended(i) <=> v.requires_hitl)

\* runs were suspended on a flag raised by the confidence alone (0.84) and
\* by the verdict alone, and a run with the confidence 0.85 exactly was not
\* flagged and went on
C20_Witness ==
  \E i1, i2, i3 \in Runs :
    /\ Suspended(i1)
    /\ VerificationOf(i1).verdict = "correct"
    /\ VerificationOf(i1).confidence = Num(84)
    /\ VerificationOf(i1).requires_hitl
    /\ Suspended(i2)
    /\ VerificationOf(i2).verdict = "incorrect"
    /\ VerificationOf(i2).confidence = Num(85)
    /\ VerificationOf(i2).requires_hitl
    /\ Verified(i3) /\ WentOn(i3)
    /\ VerificationOf(i3).confidence = Num(85)
    /\ ~VerificationOf(i3).requires_hitl

\* ------------------------------------------------------------------
\* The agents, one call at a time
\* ------------------------------------------------------------------

\* whether a call of the agent reaches its llm.generate()

\* IntentRouter.route: only the fallback is model-backed
RouteCallsModel(problem_data) ==
  Get(problem_data, "topic", None) \notin DOMAIN TOPIC_TO_ROUTE

\* SolverAgent.solve: the out-of-scope stop comes before the prompt
SolveCallsModel(rt) == rt # "out_of_scope"

\* VerifierAgent.verify: the checks of the solution come before the prompt
VerifyCallsModel(solution) == solution.final_answer # None

\* ExplainerAgent.explain: the guard comes before the prompt
ExplainCallsModel(verification_confidence) ==
  ~ExplainerRefuses(verification_confidence)

\* parsed problems: each recognized topic, one that is not, and none
RouteProblems ==
  { [problem_text |-> "p1", topic |-> t] :
      t \in {"algebra", "probability", "calculus", "linear_algebra",
             "geometry"} }
  \cup { [problem_text |-> "p1"] }

\* routes and tool grants a solver call may be given
SolveRoutes == {"algebra_equation", "calculus_derivative", "out_of_scope"}

SolveTools == { <<"python">>, <<>> }

\* replies of the solver's model: those of the runs, and malformed ones
SolveProbeReplies ==
  SolverReplies \cup
  { LlmText,
    LlmJson([final_answer |-> JStr("x=5"), steps |-> JList(<<"s1", "s2">>)]),
    LlmJson([steps |-> JList(<<"s1">>), tool_requests |-> JList(<<>>)]),
    LlmJson([final_answer |-> JStr(""), steps |-> JList(<<"s1">>),
             tool_requests |-> JList(<<>>)]),
    LlmJson([final_answer |-> JStr(" "), steps |-> JList(<<"s1">>),
             tool_requests |-> JList(<<"calculator">>)]),
    LlmJson([final_answer |-> JNull, steps |-> JList(<<"s1">>),
             tool_requests |-> JList(<<>>)]),
    LlmJson([final_answer |-> JNum(5), steps |-> JList(<<"s1">>),
             tool_requests |-> JList(<<>>)]),
    LlmJson([final_answer |-> JStr("x=5"), steps |-> JNum(1),
             tool_requests |-> JList(<<>>)]),
    LlmJson([final_answer |-> JStr("x=5"), steps |-> JStr("s1"),
             tool_requests |-> JList(<<>>)]),
    LlmJson([final_answer |-> JStr("x=5"), steps |-> JList(<<>>),
             tool_requests |-> JList(<<"calculator">>)]) }

\* the candidates a verifier or explainer call may be given
SolvedCandidate ==
  [status |-> "SOLVED", final_answer |-> "x=5", steps |-> <<"s1", "s2">>,
   used_tools |-> <<"python">>]

VerifySolutions == {SolvedCandidate, SolverFailed("LLM call failed")}

\* replies of the verifier's model: those of the runs, and malformed ones
VerifyProbeReplies ==
  VerifierReplies \cup
  { LlmText,
    LlmJson([verdict |-> JStr("maybe"), confidence |-> JNum(90),
             issues |-> JList(<<>>)]),
    LlmJson([verdict |-> JNull, confidence |-> JNum(90),
             issues |-> JList(<<>>)]),
    LlmJson([confidence |-> JNum(90), issues |-> JList(<<>>)]),
    LlmJson([verdict |-> JList(<<"correct">>), confidence |-> JNum(90),
             issues |-> JList(<<>>)]),
    LlmJson([verdict |-> JStr("correct"), confidence |-> JStr("high"),
             issues |-> JList(<<>>)]),
    LlmJson([verdict |-> JStr("incorrect"), confidence |-> JStr("high"),
             issues |-> JList(<<>>)]),
    LlmJson([verdict |-> JStr("correct"), confidence |-> JNull,
             issues |-> JList(<<>>)]),
    LlmJson([verdict |-> JStr("correct"), issues |-> JList(<<>>)]),
    LlmJson([verdict |-> JStr("correct"), confidence |-> JStr("nan"),
             issues |-> JList(<<>>)]),
    LlmJson([verdict |-> JStr("correct"), confidence |-> JNum(-10),
             issues |-> JList(<<>>)]),
    LlmJson([verdict |-> JStr("correct"), confidence |-> JNum(100),
             issues |-> JList(<<>>)]),
    LlmJson([verdict |-> JStr("uncertain"), confidence |-> JNum(100),
             issues |-> JList(<<"unsure">>)]) }

\* confidences an explainer call may be given
ExplainConfidences == {Num(84), Num(85), Num(100), NaN}

\* replies of the explainer's model: one line per step, too few, too many,
\* none, no JSON, no reply
ExplainProbeReplies ==
  ExplainerReplies \cup
  { LlmText,
    LlmJson([explanation |-> JList(<<"why s1", "why s2">>),
             key_concepts |-> JList(<<"k">>),
             common_mistakes |-> JList(<<"m">>)]),
    LlmJson([explanation |-> JList(<<"why s1", "why s2", "more">>),
             key_concepts |-> JList(<<"k">>),
             common_mistakes |-> JList(<<>>)]),
    LlmJson([explanation |-> JStr("why"), key_concepts |-> JList(<<>>),
             common_mistakes |-> JList(<<>>)]) }

\* No call is in progress
Idle == [agent |-> "none"]

\* The state of this specification is one call of one agent, kept in run:
\* its arguments, the reply of the model (used if the call reaches the
\* model), whether it reached the model, and what the call returned.
AgentInit ==
  /\ HITL_STORE = <<>>
  /\ resume = <<>>
  /\ run = Idle

CallRoute ==
  /\ \E problem_data \in RouteProblems, fallback \in LlmRouteOutcomes :
       run' = [agent |-> "IntentRouter", problem_data |-> problem_data,
               llm_called |-> RouteCallsModel(problem_data),
               output |-> route(problem_data, fallback)]
  /\ UNCHANGED <<HITL_STORE, resume>>

CallSolve ==
  /\ \E rt \in SolveRoutes, tools_allowed \in SolveTools,
        llm_response \in SolveProbeReplies :
       run' = [agent |-> "Solver", route |-> rt,
               tools_allowed |-> tools_allowed,
               llm_response |-> llm_response,
               llm_called |-> SolveCallsModel(rt),
               output |-> solve("p1", rt, "medium", tools_allowed,
                                llm_response)]
  /\ UNCHANGED <<HITL_STORE, resume>>

CallVerify ==
  /\ \E solution \in VerifySolutions, llm_response \in VerifyProbeReplies :
       run' = [agent |-> "Verifier", solution |-> solution,
               llm_response |-> llm_response,
               llm_called |-> VerifyCallsModel(solution),
               output |-> verify("p1", solution, "algebra_equation",
                                 llm_response)]
  /\ UNCHANGED <<HITL_STORE, resume>>

CallExplain ==
  /\ \E verification_confidence \in ExplainConfidences,
        response \in ExplainProbeReplies :
       run' = [agent |-> "Explainer", solution |-> SolvedCandidate,
               confidence |-> verification_confidence,
               llm_response |-> response,
               llm_called |-> ExplainCallsModel(verification_confidence),
               output |-> explain("p1", SolvedCandidate,
                                  verification_confidence, response)]
  /\ UNCHANGED <<HITL_STORE, resume>>

AgentNext == CallRoute \/ CallSolve \/ CallVerify \/ CallExplain

AgentSpec == AgentInit /\ [][AgentNext]_vars

\* ------------------------------------------------------------------
\* C21
\* ------------------------------------------------------------------

\* a float of the interval [0.0, 1.0]
InUnitInterval(f) == ~f.nan /\ 0 <= f.v /\ f.v <= 100

\* C21: the verification of every run that returned has a confidence within
\* [0.0, 1.0]; in particular no run returns SUCCESS on a confidence the
\* model reported outside that interval (1.5, NaN): such a run is suspended.
C21_ConfidenceInUnitInterval ==
  \A i \in Runs :
    (run[i].pc = "done" /\ Verified(i))
    => /\ InUnitInterval(VerificationOf(i).confidence)
       /\ Status(run[i].result) = "SUCCESS"
          => InUnitInterval(run[i].result.confidence)

\* ------------------------------------------------------------------
\* C22
\* ------------------------------------------------------------------

\* a verdict the model's object carries that is not one of the three
UnrecognizedVerdict(d) ==
  /\ "verdict" \in DOMAIN d
  /\ \/ d.verdict.t # "str"
     \/ d.verdict.s \notin {"correct", "incorrect", "uncertain"}

\* a confidence the model's object carries that is no number and no text of
\* a number
NonNumericConfidence(d) ==
  /\ "confidence" \in DOMAIN d
  /\ d.confidence.t # "num"
  /\ ~(d.confidence.t = "str" /\ d.confidence.s \in {"0.85", "nan"})

\* the call of the verifier's model failed or its result is malformed
MalformedVerification(llm_response) ==
  \/ ~llm_response.success
  \/ llm_response.parsed_json.t # "dict"
  \/ UnrecognizedVerdict(llm_response.parsed_json.d)
  \/ NonNumericConfidence(llm_response.parsed_json.d)

\* C22: when the verifier's model call fails or its result is malformed (no
\* object, an unrecognized verdict, a non-numeric confidence), verify
\* returns verdict uncertain, confidence 0.0 and requires_hitl true, exactly,
\* and the gate suspends a run with that verification.
C22_VerifyFailsClosed ==
  (run.agent = "Verifier" /\ run.llm_called
     /\ MalformedVerification(run.llm_response))
  => /\ ~IsRaised(run.output)
     /\ run.output.verdict = "uncertain"
     /\ run.output.confidence = Num(0)
     /\ run.output.requires_hitl
     /\ NeedsReview(run.output)

\* ------------------------------------------------------------------
\* C23
\* ------------------------------------------------------------------

\* the elements of a list
Elements(l) == {l[n] : n \in DOMAIN l}

\* the model's reply is an object with the three keys
FullSolution(llm_response) ==
  /\ llm_response.success
  /\ llm_response.parsed_json.t = "dict"
  /\ {"final_answer", "steps", "tool_requests"}
       \subseteq DOMAIN llm_response.parsed_json.d

\* the reply carries an empty final_answer / asks for a tool not allowed
EmptyAnswer(llm_response) ==
  /\ FullSolution(llm_response)
  /\ llm_response.parsed_json.d.final_answer.t = "str"
  /\ llm_response.parsed_json.d.final_answer.s \in {"", " "}

AsksUnauthorized(llm_response, tools_allowed) ==
  /\ FullSolution(llm_response)
  /\ llm_response.parsed_json.d.tool_requests.t = "list"
  /\ ~(Elements(llm_response.parsed_json.d.tool_requests.l)
         \subseteq Elements(tools_allowed))

\* C23: a candidate solve returns as SOLVED has a non-empty final_answer and
\* used_tools within the tools_allowed of the call; on the route
\* out_of_scope solve returns FAILED without calling the model; and on a
\* reply with an empty final_answer, or one that asks for a tool that is not
\* allowed, it returns FAILED (the tool is not dropped and the rest kept).
C23_SolvedIsAuthorized ==
  (run.agent = "Solver")
  => /\ (~IsRaised(run.output) /\ run.output.status = "SOLVED")
        => /\ run.output.final_answer \notin {None, "", " "}
           /\ Elements(run.output.used_tools) \subseteq Elements(run.tools_allowed)
     /\ run.route = "out_of_scope"
        => /\ ~run.llm_called
           /\ run.output
                = [status |-> "FAILED", final_answer |-> None, steps |-> <<>>,
                   reason |-> "Problem out of supported scope"]
     /\ ( /\ run.llm_called
          /\ \/ EmptyAnswer(run.llm_response)
             \/ AsksUnauthorized(run.llm_response, run.tools_allowed) )
        => /\ ~IsRaised(run.output)
           /\ run.output.status = "FAILED"
           /\ run.output.final_answer = None

\* a reply that asks for python and calculator where only python is allowed
\* was answered FAILED, naming the calculator
C23_Witness ==
  /\ run.agent = "Solver"
  /\ run.route = "algebra_equation"
  /\ run.tools_allowed = <<"python">>
  /\ AsksUnauthorized(run.llm_response, run.tools_allowed)
  /\ "python" \in Elements(run.llm_response.parsed_json.d.tool_requests.l)
  /\ ~EmptyAnswer(run.llm_response)
  /\ run.output.status = "FAILED"
  /\ run.output.reason = "Unauthorized tool request: calculator"

\* ------------------------------------------------------------------
\* C24
\* ------------------------------------------------------------------

EmptyExplanation ==
  [explanation |-> <<>>, key_concepts |-> <<>>, common_mistakes |-> <<>>]

\* the explainer's model wrote a per-step explanation of n lines
WroteLines(llm_response, n) ==
  /\ llm_response.success
  /\ llm_response.parsed_json.t = "dict"
  /\ "explanation" \in DOMAIN llm_response.parsed_json.d
  /\ llm_response.parsed_json.d.explanation.t = "list"
  /\ Len(llm_response.parsed_json.d.explanation.l) = n

\* the explanation a SUCCESS carries when explain returned output for the
\* candidate
Delivered(solution, output, confidence) ==
  SuccessOutcome(solution, output, [confidence |-> confidence], <<>>).explanation

\* C24: when the explainer's model writes a per-step explanation whose
\* number of lines is not the number of steps of the candidate, the
\* explanation of the SUCCESS outcome is the empty one (no lines, no key
\* concepts, no common mistakes); and whenever the explanation of a SUCCESS
\* has lines, it has as many as the candidate has steps.
C24_MismatchedExplanationDropped ==
  (run.agent = "Explainer" /\ ~IsRaised(run.output))
  => LET out == Delivered(run.solution, run.output, run.confidence)
         steps == Len(run.solution.steps)
     IN  /\ (\E n \in 0..5 : n # steps /\ WroteLines(run.llm_response, n))
            => out = EmptyExplanation
         /\ out.explanation # <<>> => Len(out.explanation) = steps

\* the model wrote one line for a candidate of two steps, and the outcome
\* carries the empty explanation
C24_Witness ==
  /\ run.agent = "Explainer"
  /\ run.llm_called
  /\ Len(run.solution.steps) = 2
  /\ WroteLines(run.llm_response, 1)
  /\ run.output = EmptyExplanation

\* ------------------------------------------------------------------
\* C25
\* ------------------------------------------------------------------

\* the topic hints Route recognizes
RecognizedTopics == {"algebra", "probability", "calculus", "linear_algebra"}

\* the call in run is a Route on a problem with a recognized topic hint
RoutesKnownTopic(call) ==
  /\ call.agent = "IntentRouter"
  /\ "topic" \in DOMAIN call.problem_data
  /\ call.problem_data.topic \in RecognizedTopics

\* C25: a call of Route on a problem that carries one of the topics algebra,
\* probability, calculus, linear_algebra returns a decision without calling
\* the model, with a route of the valid enumeration, never out_of_scope, and
\* algebra_equation for algebra; and whatever the model would have answered,
\* a later call of Route on the same problem returns the same decision.
C25_KnownTopicIsFixed ==
  /\ [](RoutesKnownTopic(run)
        => /\ ~run.llm_called
           /\ ~IsRaised(run.output)
           /\ run.output.route \in VALID_ROUTES
           /\ run.output.route # "out_of_scope"
           /\ run.problem_data.topic = "algebra"
              => run.output.route = "algebra_equation")
  /\ [][( /\ RoutesKnownTopic(run)
          /\ run'.agent = "IntentRouter"
          /\ run'.problem_data = run.problem_data )
        => run'.output = run.output]_vars

\* Route was called on a calculus problem and answered calculus_derivative
\* without the model
C25_Witness ==
  /\ RoutesKnownTopic(run)
  /\ run.problem_data.topic = "calculus"
  /\ run.output.route = "calculus_derivative"
  /\ run.output.difficulty = "medium"
  /\ ~run.llm_called

\* ------------------------------------------------------------------
\* C26
\* ------------------------------------------------------------------

\* the call in run is a Route on a problem without a recognized topic hint
RoutesUnknownTopic(call) ==
  /\ call.agent = "IntentRouter"
  /\ ~RoutesKnownTopic(call)

\* C26: a call of Route on a problem without a recognized topic hint returns
\* a decision, whatever becomes of the model's answer: its route is one of
\* the valid enumeration or out_of_scope, and an out_of_scope decision has
\* the difficulty unknown.
C26_RouteFailsClosed ==
  RoutesUnknownTopic(run)
  => /\ ~IsRaised(run.output)
     /\ run.output.route \in VALID_ROUTES \cup {"out_of_scope"}
     /\ run.output.route = "out_of_scope" => run.output.difficulty = "unknown"

\* ------------------------------------------------------------------
\* C27
\* ------------------------------------------------------------------

\* C27: a call of Resume that names an id no record of the ledger has is
\* answered with an error at once, whatever its action and payload; it
\* invokes no capability, and the ledger after it is the ledger before it.
C27_UnknownIdRefused ==
  [][\A k \in Resumes :
       ( /\ Begins(k)
         /\ resume'[k].input.hitl_request_id \notin DOMAIN HITL_STORE )
       => /\ resume'[k].pc = "done"
          /\ Status(resume'[k].result) = "ERROR"
          /\ resume'[k].calls = <<>>
          /\ HITL_STORE' = HITL_STORE]_vars

\* with a record pending in the ledger, a reject and a full correction that
\* named an id no record has were both answered "Invalid HITL request ID",
\* and the record is still pending
C27_Witness ==
  \E k1, k2 \in Resumes :
    /\ resume[k1].pc = "done" /\ resume[k2].pc = "done"
    /\ resume[k1].input.hitl_request_id \notin DOMAIN HITL_STORE
    /\ resume[k2].input.hitl_request_id \notin DOMAIN HITL_STORE
    /\ resume[k1].input.action = "reject"
    /\ FullCorrection(resume[k2].input)
    /\ resume[k1].result = Error("Invalid HITL request ID")
    /\ resume[k2].result = Error("Invalid HITL request ID")
    /\ resume[k1].calls = <<>> /\ resume[k2].calls = <<>>
    /\ \E h \in DOMAIN HITL_STORE : HITL_STORE[h].state = "PENDING_REVIEW"

\* ------------------------------------------------------------------
\* C28
\* ------------------------------------------------------------------

\* the record hitl_id becomes RESOLVED in this step
BecomesResolved(hitl_id) ==
  /\ HITL_STORE[hitl_id].state # "RESOLVED"
  /\ HITL_STORE'[hitl_id].state = "RESOLVED"

\* C28: a record becomes RESOLVED only in the step in which a call of Resume
\* on it returns SUCCESS, REJECTED or NEEDS_RERUN, and for approve and
\* correct_solution that call has by then called the explainer and holds its
\* explanation; the step in which the explainer is called writes nothing,
\* and a call that ends in an error or in the explainer's exception leaves
\* every record as it was, so that a record it found PENDING_REVIEW is not
\* made RESOLVED by it.
C28_ResolvedOnlyOnSuccess ==
  [][/\ \A h \in DOMAIN HITL_STORE :
          BecomesResolved(h)
          => \E k \in Resumes :
               /\ ResumeWrites(k, h)
               /\ resume[k].input.action \in {"approve", "correct_solution"}
                  => /\ resume[k].calls = <<"Explain">>
                     /\ "explanation" \in DOMAIN resume[k]
                     /\ ~IsRaised(resume[k].explanation)
     /\ \A k \in Resumes :
          /\ (resume[k].pc = "explain" /\ resume'[k] # resume[k])
             => HITL_STORE' = HITL_STORE
          /\ ( /\ resume'[k] # resume[k]
               /\ resume'[k].pc = "done"
               /\ ~Resolving(resume'[k].result) )
             => HITL_STORE' = HITL_STORE]_vars

\* an approve on a record whose stored confidence is 0.84 called the
\* explainer, ended in its ValueError, and the record is still PENDING_REVIEW
C28_Witness ==
  \E k \in Resumes :
    /\ resume[k].pc = "done"
    /\ resume[k].input.action = "approve"
    /\ resume[k].calls = <<"Explain">>
    /\ resume[k].result = Raised("ValueError")
    /\ LET record == HITL_STORE[resume[k].input.hitl_request_id]
       IN  /\ record.state = "PENDING_REVIEW"
           /\ record.verification.confidence = Num(84)
           /\ "resolution_type" \notin DOMAIN record

\* ------------------------------------------------------------------
\* C29
\* ------------------------------------------------------------------

\* A call of resume_from_hitl that was admitted runs to its return: between
\* the checks and the write there is no wait, so the thread that serves the
\* request is scheduled until it has written the record and returned.
FairSpec == Spec /\ \A k \in Resumes : WF_vars(ResumeResolve(k))

\* the request to reject the record hitl_id
Reject(hitl_id) == [action |-> "reject", hitl_request_id |-> hitl_id]

\* C29: no record is stuck in PENDING_REVIEW. In every reachable state, a
\* reject on a record that is PENDING_REVIEW is admitted, and its write
\* leaves the record RESOLVED and returns REJECTED; the step that ends a call
\* of Resume admitted to its write returns SUCCESS, REJECTED or NEEDS_RERUN
\* and leaves its record RESOLVED; and no call stays before its write for
\* ever. So once the reviewer issues a reject on a pending record, the
\* record is eventually RESOLVED.
C29_PendingCanBeResolved ==
  /\ [](\A h \in DOMAIN HITL_STORE :
          HITL_STORE[h].state = "PENDING_REVIEW"
          => /\ Admission(Reject(h), HITL_STORE) = [pc |-> "resolve"]
             /\ Resolved(Reject(h), HITL_STORE[h]).state = "RESOLVED"
             /\ ResumeOutcome(Reject(h), Resolved(Reject(h), HITL_STORE[h]),
                              None)
                  = [status |-> "REJECTED"])
  /\ [][\A k \in Resumes :
          (resume[k].pc = "resolve" /\ resume'[k] # resume[k])
          => /\ resume'[k].pc = "done"
             /\ Resolving(resume'[k].result)
             /\ HITL_STORE'[resume[k].input.hitl_request_id].state
                  = "RESOLVED"]_vars
  /\ <>[](\A k \in Resumes : resume[k].pc # "resolve")

\* two runs were suspended; a reject resolved the record of the second while
\* the record of the first is still PENDING_REVIEW
C29_Witness ==
  \E i1, i2 \in Runs, k \in Resumes :
    /\ i1 < i2
    /\ Status(run[i1].result) = "HITL_REQUIRED"
    /\ Status(run[i2].result) = "HITL_REQUIRED"
    /\ resume[k].pc = "done"
    /\ resume[k].input = Reject(run[i2].result.hitl_request_id)
    /\ resume[k].result = [status |-> "REJECTED"]
    /\ HITL_STORE[run[i2].result.hitl_request_id].state = "RESOLVED"
    /\ HITL_STORE[run[i1].result.hitl_request_id].state = "PENDING_REVIEW"

====
